---- MODULE Spec2Model ----
(***************************************************************************)
(* wangler: a wrapper around the wrangler CLI (src/src/index.ts).          *)
(*                                                                         *)
(* A JavaScript string is a sequence of one-character strings, so that     *)
(* slicing at ":", JSON encoding, joining with " " and the shell's         *)
(* re-tokenization of the spawned command line are computed, not assumed.  *)
(* A JavaScript object (Record<string, string>) is a sequence of           *)
(* <<key, value>> pairs with distinct keys, in insertion order.            *)
(* A value that may be null is a sequence of length at most one.           *)
(***************************************************************************)
EXTENDS Integers, Sequences, FiniteSets, TLC

VARIABLES
    argv,           \* process.argv.slice(2)
    env,            \* process.env
    files,          \* the dotenv files on disk: path -> parsed object
    pc,             \* position of the top-level script
    penvVars,       \* index.ts:142
    remainingArgs,  \* index.ts:142
    envName,        \* index.ts:145
    customEnvPath,  \* index.ts:146
    dotenvVars,     \* index.ts:147
    allEnvVars,     \* index.ts:150
    fullCommand,    \* index.ts:120, 170
    spawned,        \* the command lines handed to spawn(), in order
    loads,          \* the paths handed to dotenv's config(), in order
    lookups,        \* the keys read from process.env by extractPenvArgs
    warnings,       \* console.warn output, in order
    logs,           \* console.log output, in order
    childCode,      \* the code the child's "exit" event carried
    exitCode        \* the code given to process.exit

vars == <<argv, env, files, pc, penvVars, remainingArgs, envName, customEnvPath,
          dotenvVars, allEnvVars, fullCommand, spawned, loads, lookups,
          warnings, logs, childCode, exitCode>>

----------------------------------------------------------------------------
(* Bounds *)

MaxArgs == 4

----------------------------------------------------------------------------
(* String literals of the source *)

PENV == <<"-", "-", "p", "e", "n", "v">>
ENVFILE == <<"-", "-", "e", "n", "v", "-", "f", "i", "l", "e">>
ENVFLAG == <<"-", "-", "e", "n", "v">>
DEV == <<"d", "e", "v">>
DEPLOY == <<"d", "e", "p", "l", "o", "y">>
NodePrefix == <<"n", "o", "d", "e", " ">>
wranglerPath == <<"/", "w", "/", "b", "i", "n", "/", "w", "r", "a", "n", "g", "l", "e", "r", ".", "j", "s">>
DefaultEnvPath == <<".", "e", "n", "v">>
DefinePrefix == <<"-", "-", "d", "e", "f", "i", "n", "e", " ", "p", "r", "o", "c", "e", "s", "s", ".", "e", "n", "v", ".">>
WarnNotFoundPrefix == <<"W", "a", "r", "n", "i", "n", "g", ":", " ", "E", "n", "v", "i", "r", "o", "n", "m", "e", "n", "t", " ", "v", "a", "r", "i", "a", "b", "l", "e", " ">>
WarnNotFoundSuffix == <<" ", "n", "o", "t", " ", "f", "o", "u", "n", "d", " ", "i", "n", " ", "p", "r", "o", "c", "e", "s", "s", ".", "e", "n", "v">>
WarnLoadPrefix == <<"W", "a", "r", "n", "i", "n", "g", ":", " ", "C", "o", "u", "l", "d", " ", "n", "o", "t", " ", "l", "o", "a", "d", " ", "e", "n", "v", " ", "f", "i", "l", "e", " ", "a", "t", " ">>
LoadedPrefix == <<"L", "o", "a", "d", "e", "d", " ", "e", "n", "v", "i", "r", "o", "n", "m", "e", "n", "t", " ", "v", "a", "r", "i", "a", "b", "l", "e", "s", " ", "f", "r", "o", "m", " ">>
SP == <<" ">>

----------------------------------------------------------------------------
(* JavaScript built-ins used by the source *)

Null == <<>>
Some(x) == <<x>>

\* Array.prototype.indexOf / String.prototype.indexOf, 1-based; 0 is "not found" (-1)
RECURSIVE IndexFrom(_, _, _)
IndexFrom(s, x, i) ==
    IF i > Len(s) THEN 0
    ELSE IF s[i] = x THEN i
    ELSE IndexFrom(s, x, i + 1)

IndexOf(s, x) == IndexFrom(s, x, 1)

\* Array.prototype.join
RECURSIVE Join(_, _)
Join(toks, sep) ==
    IF Len(toks) = 0 THEN <<>>
    ELSE IF Len(toks) = 1 THEN toks[1]
    ELSE toks[1] \o sep \o Join(Tail(toks), sep)

\* Objects: own keys in insertion order
Keys(obj) == {obj[i][1] : i \in 1..Len(obj)}
Has(obj, k) == k \in Keys(obj)
Get(obj, k) == obj[CHOOSE i \in 1..Len(obj) : obj[i][1] = k][2]

\* obj[k] = v
ObjSet(obj, k, v) ==
    IF Has(obj, k)
    THEN [i \in 1..Len(obj) |-> IF obj[i][1] = k THEN <<k, v>> ELSE obj[i]]
    ELSE Append(obj, <<k, v>>)

\* { ...a, ...b }
RECURSIVE AssignAll(_, _)
AssignAll(target, src) ==
    IF Len(src) = 0 THEN target
    ELSE AssignAll(ObjSet(target, src[1][1], src[1][2]), Tail(src))

\* Mutant: the earlier source wins
Spread_EarlierWins(a, b) == AssignAll(AssignAll(<<>>, b), a)

Spread(a, b) == AssignAll(AssignAll(<<>>, a), b)

----------------------------------------------------------------------------
(* Collaborators: path and dotenv *)

\* String.prototype.slice(0, end) / slice(start), on 1-based positions
Before(s, i) == SubSeq(s, 1, i - 1)
After(s, i) == SubSeq(s, i + 1, Len(s))

\* path.dirname (posix): scan from the end for the last "/" that follows a
\* non-"/" character
RECURSIVE DirnameEnd(_, _, _)
DirnameEnd(p, i, matchedSlash) ==
    IF i < 2 THEN 0
    ELSE IF p[i] = "/"
         THEN IF ~matchedSlash THEN i ELSE DirnameEnd(p, i - 1, matchedSlash)
         ELSE DirnameEnd(p, i - 1, FALSE)

dirname(p) ==
    IF Len(p) = 0 THEN <<".">>
    ELSE LET end == DirnameEnd(p, Len(p), TRUE)
             hasRoot == p[1] = "/"
         IN  IF end = 0 THEN (IF hasRoot THEN <<"/">> ELSE <<".">>)
             ELSE IF hasRoot /\ end = 2 THEN <<"/", "/">>
             ELSE Before(p, end)

\* path.basename (posix): the last portion, trailing "/" dropped
RECURSIVE StripTrailingSlashes(_)
StripTrailingSlashes(p) ==
    IF Len(p) > 0 /\ p[Len(p)] = "/" THEN StripTrailingSlashes(Before(p, Len(p)))
    ELSE p

RECURSIVE LastIndexFrom(_, _, _)
LastIndexFrom(s, x, i) ==
    IF i < 1 THEN 0
    ELSE IF s[i] = x THEN i
    ELSE LastIndexFrom(s, x, i - 1)

basename(p) ==
    LET q == StripTrailingSlashes(p)
    IN  After(q, LastIndexFrom(q, "/", Len(q)))

\* dotenv's config({ path }): { parsed } when the file can be read, { error }
\* otherwise; it never throws
config(fs, path) ==
    IF path \in DOMAIN fs
    THEN [error |-> FALSE, parsed |-> fs[path]]
    ELSE [error |-> TRUE, parsed |-> <<>>]

\* dotenv's populate: a parsed key is written to process.env unless already set
RECURSIVE Populate(_, _)
Populate(procEnv, parsed) ==
    IF Len(parsed) = 0 THEN procEnv
    ELSE Populate(IF Has(procEnv, parsed[1][1]) THEN procEnv
                  ELSE Append(procEnv, parsed[1]),
                  Tail(parsed))

----------------------------------------------------------------------------
(* src/src/index.ts *)

\* getEnvFromArgs: the token after the first "--env", or null
getEnvFromArgs(args) ==
    LET envIndex == IndexOf(args, ENVFLAG)
    IN  IF envIndex # 0 /\ envIndex + 1 <= Len(args)
        THEN Some(args[envIndex + 1])
        ELSE Null

\* getEnvFilePath: the token after the first "--env-file", or null
getEnvFilePath(args) ==
    LET envFileIndex == IndexOf(args, ENVFILE)
    IN  IF envFileIndex # 0 /\ envFileIndex + 1 <= Len(args)
        THEN Some(args[envFileIndex + 1])
        ELSE Null

NotFoundWarning(key) == WarnNotFoundPrefix \o key \o WarnNotFoundSuffix

\* Mutant: a key missing from process.env is recorded as empty instead of warned about
PenvPair_RecordsMissing(st, keyValue, procEnv) ==
    IF IndexOf(keyValue, ":") = 0 /\ ~Has(procEnv, keyValue)
    THEN [st EXCEPT !.envVars = ObjSet(@, keyValue, <<>>),
                    !.lookups = Append(@, keyValue)]
    ELSE st

\* Mutant: the pair is split at the last ":" instead of the first
PenvPair_LastColon(st, keyValue, procEnv) ==
    LET colonIndex == LastIndexFrom(keyValue, ":", Len(keyValue))
        key == Before(keyValue, colonIndex)
        value == After(keyValue, colonIndex)
    IN  IF colonIndex # 0
        THEN IF Len(key) > 0 /\ Len(value) > 0
             THEN [st EXCEPT !.envVars = ObjSet(@, key, value)]
             ELSE st
        ELSE IF Has(procEnv, keyValue)
             THEN [st EXCEPT !.envVars = ObjSet(@, keyValue, Get(procEnv, keyValue)),
                             !.lookups = Append(@, keyValue)]
             ELSE [st EXCEPT !.warnings = Append(@, NotFoundWarning(keyValue)),
                             !.lookups = Append(@, keyValue)]

\* One "--penv" pair (index.ts:36-56); st carries envVars, warnings and lookups
PenvPair(st, keyValue, procEnv) ==
    LET colonIndex == IndexOf(keyValue, ":")
        key == Before(keyValue, colonIndex)
        value == After(keyValue, colonIndex)
    IN  IF colonIndex # 0
        THEN IF Len(key) > 0 /\ Len(value) > 0
             THEN [st EXCEPT !.envVars = ObjSet(@, key, value)]
             ELSE st
        ELSE IF Has(procEnv, keyValue)
             THEN [st EXCEPT !.envVars = ObjSet(@, keyValue, Get(procEnv, keyValue)),
                             !.lookups = Append(@, keyValue)]
             ELSE [st EXCEPT !.warnings = Append(@, NotFoundWarning(keyValue)),
                             !.lookups = Append(@, keyValue)]

\* The while loop of extractPenvArgs (index.ts:33-64), i is 1-based
RECURSIVE ExtractLoop(_, _, _, _)
ExtractLoop(args, i, st, procEnv) ==
    IF i > Len(args) THEN st
    ELSE IF args[i] = PENV /\ i + 1 <= Len(args)
         THEN ExtractLoop(args, i + 2, PenvPair(st, args[i + 1], procEnv), procEnv)
    ELSE IF args[i] = ENVFILE /\ i + 1 <= Len(args)
         THEN ExtractLoop(args, i + 2, st, procEnv)
    ELSE ExtractLoop(args, i + 1,
                     [st EXCEPT !.remainingArgs = Append(@, args[i])], procEnv)

\* Mutant: the --env-file pair is not consumed
RECURSIVE ExtractLoop_PenvOnly(_, _, _, _)
ExtractLoop_PenvOnly(args, i, st, procEnv) ==
    IF i > Len(args) THEN st
    ELSE IF args[i] = PENV /\ i + 1 <= Len(args)
         THEN ExtractLoop_PenvOnly(args, i + 2, PenvPair(st, args[i + 1], procEnv), procEnv)
    ELSE ExtractLoop_PenvOnly(args, i + 1,
                              [st EXCEPT !.remainingArgs = Append(@, args[i])], procEnv)

extractPenvArgs_KeepsEnvFile(args, procEnv) ==
    ExtractLoop_PenvOnly(args, 1,
                         [envVars |-> <<>>, remainingArgs |-> <<>>,
                          warnings |-> <<>>, lookups |-> <<>>],
                         procEnv)

extractPenvArgs(args, procEnv) ==
    ExtractLoop(args, 1,
                [envVars |-> <<>>, remainingArgs |-> <<>>,
                 warnings |-> <<>>, lookups |-> <<>>],
                procEnv)

\* Mutant: the overlay is always looked for next to the default file
envSpecificPath_DefaultDir(name, customPath) ==
    DefaultEnvPath \o <<".">> \o name

\* The overlay path of loadEnvFiles (index.ts:91-95)
envSpecificPath(name, customPath) ==
    IF customPath # Null /\ customPath[1] # <<>>
    THEN dirname(customPath[1]) \o <<"/">> \o basename(customPath[1])
         \o <<".">> \o name
    ELSE DefaultEnvPath \o <<".">> \o name

\* Mutant: the warning for a missing default .env file is switched on
baseWarning_AnyBase(custom, failed, basePath) ==
    IF failed THEN <<WarnLoadPrefix \o basePath>> ELSE <<>>

\* The warning of the base load (index.ts:76-78, 84-86): only the --env-file
\* branch warns, the default branch's console.warn is commented out
baseWarning(custom, failed, basePath) ==
    IF custom /\ failed THEN <<WarnLoadPrefix \o basePath>> ELSE <<>>

\* loadEnvFiles (index.ts:70-109); a string is truthy iff it is not empty
loadEnvFiles(name, customPath, fs, procEnv) ==
    LET custom == customPath # Null /\ customPath[1] # <<>>
        basePath == IF custom THEN customPath[1] ELSE DefaultEnvPath
        baseEnv == config(fs, basePath)
        baseWarn == baseWarning(custom, baseEnv.error, basePath)
        baseLog == IF custom /\ ~baseEnv.error
                   THEN <<LoadedPrefix \o basePath>> ELSE <<>>
        hasEnv == name # Null /\ name[1] # <<>>
        overlayPath == envSpecificPath(name[1], customPath)
        envSpecificConfig == config(fs, overlayPath)
        envSpecificVars == IF hasEnv /\ ~envSpecificConfig.error
                           THEN envSpecificConfig.parsed ELSE <<>>
        overlayLog == IF hasEnv /\ ~envSpecificConfig.error
                      THEN <<LoadedPrefix \o overlayPath>> ELSE <<>>
    IN  [vars |-> Spread(baseEnv.parsed, envSpecificVars),
         warnings |-> baseWarn,
         logs |-> baseLog \o overlayLog,
         loads |-> <<basePath>> \o (IF hasEnv THEN <<overlayPath>> ELSE <<>>),
         env |-> Populate(Populate(procEnv, baseEnv.parsed), envSpecificVars)]

\* JSON.stringify of a string: quoted, with the double quote, the backslash and
\* the control characters escaped
JsonEscape(c) ==
    IF c = "\"" THEN <<"\\", "\"">>
    ELSE IF c = "\\" THEN <<"\\", "\\">>
    ELSE IF c = "\n" THEN <<"\\", "n">>
    ELSE IF c = "\t" THEN <<"\\", "t">>
    ELSE <<c>>

RECURSIVE JsonEscapeAll(_)
JsonEscapeAll(s) ==
    IF Len(s) = 0 THEN <<>> ELSE JsonEscape(s[1]) \o JsonEscapeAll(Tail(s))

JSONstringify(s) == <<"\"">> \o JsonEscapeAll(s) \o <<"\"">>

\* One element of defineArgs (index.ts:158-159)
defineArg(key, value) ==
    DefinePrefix \o key \o <<":", "'">> \o JSONstringify(value) \o <<"'">>

\* defineArgs (index.ts:156-161): Object.entries(allEnvVars).map(...).join(" ")
defineArgs(obj) ==
    Join([i \in 1..Len(obj) |-> defineArg(obj[i][1], obj[i][2])], SP)

\* Mutant: the pass-through branch forwards the residual arguments
passthroughCommand_Residual(args) ==
    NodePrefix \o wranglerPath \o SP \o Join(extractPenvArgs(args, <<>>).remainingArgs, SP)

\* The pass-through command line (index.ts:120-122)
passthroughCommand(args) ==
    NodePrefix \o wranglerPath \o SP \o Join(args, SP)

\* Mutant: the residual arguments come before the synthesized flags
pipelineCommand_ArgsFirst(command, obj, rest) ==
    NodePrefix \o wranglerPath \o SP \o command \o SP \o Join(rest, SP)
    \o SP \o defineArgs(obj)

\* The dev/deploy command line (index.ts:170-172)
pipelineCommand(command, obj, rest) ==
    NodePrefix \o wranglerPath \o SP \o command \o SP \o defineArgs(obj)
    \o SP \o Join(rest, SP)

\* The branch condition (index.ts:125-128): no command, or neither dev nor deploy
isPassthrough(args) ==
    IF Len(args) = 0 THEN TRUE
    ELSE args[1] = <<>> \/ args[1] \notin {DEV, DEPLOY}

\* spawn(fullCommand, { shell: true }) runs `sh -c fullCommand` (index.ts:129-132,
\* 175-178). The shell's word splitting and quote removal: blanks separate words,
\* '...' is literal, "..." lets a backslash escape " and \, an unquoted
\* backslash escapes the next character. An unterminated quote is a syntax
\* error: ok is FALSE and the program is not run.
\* One character of the scan; mode is plain, single, double, or one of these
\* after a backslash (plainEsc, doubleEsc)
ShellStep(st, c) ==
    CASE st.mode = "single" /\ c = "'" -> [st EXCEPT !.mode = "plain"]
      [] st.mode = "single" /\ c # "'" -> [st EXCEPT !.cur = Append(@, c)]
      [] st.mode = "double" /\ c = "\"" -> [st EXCEPT !.mode = "plain"]
      [] st.mode = "double" /\ c = "\\" -> [st EXCEPT !.mode = "doubleEsc"]
      [] st.mode = "double" /\ c \notin {"\"", "\\"} -> [st EXCEPT !.cur = Append(@, c)]
      [] st.mode = "doubleEsc" /\ c \in {"\"", "\\"} ->
            [st EXCEPT !.mode = "double", !.cur = Append(@, c)]
      [] st.mode = "doubleEsc" /\ c \notin {"\"", "\\"} ->
            [st EXCEPT !.mode = "double", !.cur = @ \o <<"\\", c>>]
      [] st.mode = "plainEsc" ->
            [st EXCEPT !.mode = "plain", !.cur = Append(@, c), !.inWord = TRUE]
      [] st.mode = "plain" /\ c = " " ->
            [st EXCEPT !.cur = <<>>, !.inWord = FALSE,
                       !.words = IF st.inWord THEN Append(@, st.cur) ELSE @]
      [] st.mode = "plain" /\ c = "'" -> [st EXCEPT !.mode = "single", !.inWord = TRUE]
      [] st.mode = "plain" /\ c = "\"" -> [st EXCEPT !.mode = "double", !.inWord = TRUE]
      [] st.mode = "plain" /\ c = "\\" -> [st EXCEPT !.mode = "plainEsc", !.inWord = TRUE]
      [] st.mode = "plain" /\ c \notin {" ", "'", "\"", "\\"} ->
            [st EXCEPT !.cur = Append(@, c), !.inWord = TRUE]

\* The scan of s[lo..hi] from state st, halving the range
RECURSIVE ShellRun(_, _, _, _)
ShellRun(s, lo, hi, st) ==
    IF lo > hi THEN st
    ELSE IF lo = hi THEN ShellStep(st, s[lo])
    ELSE LET mid == (lo + hi) \div 2
         IN  \* the binding evaluates the left half before the right half starts
             CHOOSE r \in {ShellRun(s, mid + 1, hi, left) :
                              left \in {ShellRun(s, lo, mid, st)}} : TRUE

ShellSplit(s) ==
    LET end == ShellRun(s, 1, Len(s),
                        [mode |-> "plain", cur |-> <<>>, inWord |-> FALSE, words |-> <<>>])
        cur == IF end.mode = "plainEsc" THEN Append(end.cur, "\\") ELSE end.cur
    IN  [ok |-> end.mode \in {"plain", "plainEsc"},
         words |-> IF end.inWord THEN Append(end.words, cur) ELSE end.words]

----------------------------------------------------------------------------
(* Inputs of a run *)

WHOAMI == <<"w", "h", "o", "a", "m", "i">>
KeyK == <<"K">>
KeyJ == <<"J">>
KeyDash == <<"a", "-", "b">>
TokKV == <<"K", ":", "v">>

\* The token K serves as a bare --penv key, as an environment name and as an
\* --env-file path
ArgTokens == {PENV, ENVFILE, ENVFLAG, TokKV, KeyK}

Commands == {DEV, DEPLOY, WHOAMI}

SeqsUpTo(S, n) == UNION {[1..m -> S] : m \in 0..n}

Argvs == {<<>>} \cup {<<c>> \o rest : c \in Commands, rest \in SeqsUpTo(ArgTokens, MaxArgs)}

\* process.env at startup: K unset, or set to a value holding a single quote
AmbientEnvs == {<<>>, << <<KeyK, <<"e", "'">> >> >>}

\* The dotenv files that may exist: the default base file and its overlay for
\* environment K, the custom base file K and its overlay
CustomPath == KeyK
CustomOverlayPath == <<".", "/", "K", ".", "K">>
DefaultOverlayPath == <<".", "e", "n", "v", ".", "K">>

FileContents ==
    (DefaultEnvPath :> << <<KeyK, <<"b">> >>, <<KeyDash, <<"q", "\"">> >> >>)
    @@ (DefaultOverlayPath :> << <<KeyK, <<"o">> >>, <<KeyJ, <<"o">> >> >>)
    @@ (CustomPath :> << <<KeyJ, <<"c">> >> >>)
    @@ (CustomOverlayPath :> << <<KeyJ, <<"d">> >>, <<KeyK, <<>> >> >>)

\* A base file and an overlay file each exist or not
FileSystems ==
    {[p \in {q \in DOMAIN FileContents :
                \/ base /\ q \in {DefaultEnvPath, CustomPath}
                \/ overlay /\ q \in {DefaultOverlayPath, CustomOverlayPath}}
        |-> FileContents[p]] : base \in BOOLEAN, overlay \in BOOLEAN}

\* The code a child's "exit" event may carry: null (killed by a signal) or a number
ExitCodes == {Null, Some(0), Some(1)}

----------------------------------------------------------------------------
(* The run *)

Init ==
    /\ argv \in Argvs
    /\ env \in AmbientEnvs
    /\ files \in FileSystems
    /\ pc = "start"
    /\ penvVars = <<>>
    /\ remainingArgs = <<>>
    /\ envName = Null
    /\ customEnvPath = Null
    /\ dotenvVars = <<>>
    /\ allEnvVars = <<>>
    /\ fullCommand = <<>>
    /\ spawned = <<>>
    /\ loads = <<>>
    /\ lookups = <<>>
    /\ warnings = <<>>
    /\ logs = <<>>
    /\ childCode = Null
    /\ exitCode = Null

\* index.ts:112-136: the command is absent or not dev/deploy; spawn the
\* original command line
Passthrough ==
    /\ pc = "start"
    /\ isPassthrough(argv)
    /\ \E cmd \in {passthroughCommand(argv)} :
           /\ fullCommand' = cmd
           /\ spawned' = Append(spawned, cmd)
    /\ pc' = "spawned"
    /\ UNCHANGED <<argv, env, files, penvVars, remainingArgs, envName,
                   customEnvPath, dotenvVars, allEnvVars, loads, lookups,
                   warnings, logs, childCode, exitCode>>

\* Mutant: the dotenv files populate process.env before the overrides are resolved
Extract_AfterPopulate ==
    /\ pc = "start"
    /\ ~isPassthrough(argv)
    /\ \E l \in {loadEnvFiles(Null, getEnvFilePath(Tail(argv)), files, env)} :
       \E r \in {extractPenvArgs(Tail(argv), l.env)} :
           /\ penvVars' = r.envVars
           /\ remainingArgs' = r.remainingArgs
           /\ warnings' = warnings \o r.warnings
           /\ lookups' = lookups \o r.lookups
    /\ fullCommand' = passthroughCommand(argv)
    /\ pc' = "extracted"
    /\ UNCHANGED <<argv, env, files, envName, customEnvPath, dotenvVars,
                   allEnvVars, spawned, loads, logs, childCode, exitCode>>

\* index.ts:112-122, 142: dev or deploy; extract the --penv overrides
Extract ==
    /\ pc = "start"
    /\ ~isPassthrough(argv)
    /\ \E r \in {extractPenvArgs(Tail(argv), env)} :
           /\ penvVars' = r.envVars
           /\ remainingArgs' = r.remainingArgs
           /\ warnings' = warnings \o r.warnings
           /\ lookups' = lookups \o r.lookups
    /\ fullCommand' = passthroughCommand(argv)
    /\ pc' = "extracted"
    /\ UNCHANGED <<argv, env, files, envName, customEnvPath, dotenvVars,
                   allEnvVars, spawned, loads, logs, childCode, exitCode>>

\* index.ts:145-147: find --env and --env-file, load the dotenv files
Load ==
    /\ pc = "extracted"
    /\ \E name \in {getEnvFromArgs(remainingArgs)},
          customPath \in {getEnvFilePath(Tail(argv))} :
       \E r \in {loadEnvFiles(name, customPath, files, env)} :
           /\ envName' = name
           /\ customEnvPath' = customPath
           /\ dotenvVars' = r.vars
           /\ warnings' = warnings \o r.warnings
           /\ logs' = logs \o r.logs
           /\ loads' = loads \o r.loads
           /\ env' = r.env
    /\ pc' = "loaded"
    /\ UNCHANGED <<argv, files, penvVars, remainingArgs, allEnvVars,
                   fullCommand, spawned, lookups, childCode, exitCode>>

\* Mutant: a run that has warned does not reach spawn()
Build_StopsAfterWarning ==
    /\ pc = "loaded"
    /\ warnings = <<>>
    /\ \E merged \in {Spread(dotenvVars, penvVars)} :
       \E cmd \in {pipelineCommand(argv[1], merged, remainingArgs)} :
           /\ allEnvVars' = merged
           /\ fullCommand' = cmd
           /\ spawned' = Append(spawned, cmd)
    /\ pc' = "spawned"
    /\ UNCHANGED <<argv, env, files, penvVars, remainingArgs, envName,
                   customEnvPath, dotenvVars, loads, lookups, warnings, logs,
                   childCode, exitCode>>

\* index.ts:150-178: merge, build the command line, spawn it
Build ==
    /\ pc = "loaded"
    /\ \E merged \in {Spread(dotenvVars, penvVars)} :
       \E cmd \in {pipelineCommand(argv[1], merged, remainingArgs)} :
           /\ allEnvVars' = merged
           /\ fullCommand' = cmd
           /\ spawned' = Append(spawned, cmd)
    /\ pc' = "spawned"
    /\ UNCHANGED <<argv, env, files, penvVars, remainingArgs, envName,
                   customEnvPath, dotenvVars, loads, lookups, warnings, logs,
                   childCode, exitCode>>

\* Mutant: the wrapper exits with 0 whatever the child reported
exitStatus_Zero(code) == Some(0)

\* code || 0 (index.ts:135, 181)
exitStatus(code) == IF code = Null \/ code[1] = 0 THEN Some(0) ELSE code

\* index.ts:134-136, 180-182: the child's "exit" event; process.exit(code || 0)
ChildExit ==
    /\ pc = "spawned"
    /\ \E code \in ExitCodes :
        /\ childCode' = code
        /\ exitCode' = exitStatus(code)
    /\ pc' = "exited"
    /\ UNCHANGED <<argv, env, files, penvVars, remainingArgs, envName,
                   customEnvPath, dotenvVars, allEnvVars, fullCommand, spawned,
                   loads, lookups, warnings, logs>>

Next == Passthrough \/ Extract \/ Load \/ Build \/ ChildExit

Spec == Init /\ [][Next]_vars

\* The script runs to its spawn() call without waiting for anything; the child's
\* exit is the child's business
FairSpec == Spec /\ WF_vars(Passthrough) /\ WF_vars(Extract) /\ WF_vars(Load)
                 /\ WF_vars(Build)

----------------------------------------------------------------------------
(* Observations used by the properties *)

Recognized == ~isPassthrough(argv)
Merged == pc \in {"spawned", "exited"} /\ Recognized

\* What dotenv returned for the n-th load of the run, {} when the load failed
Loaded(n) ==
    IF n <= Len(loads) /\ loads[n] \in DOMAIN files THEN files[loads[n]] ELSE <<>>

BaseMapping == Loaded(1)
OverlayMapping == Loaded(2)

----------------------------------------------------------------------------
(* C1: in a dev or deploy run the final mapping has exactly the keys of the
   base file, the overlay file and the --penv overrides, and each key has the
   value of the strongest source defining it: overrides over overlay over base. *)
C1_Precedence ==
    Merged =>
        /\ Keys(allEnvVars) = Keys(BaseMapping) \cup Keys(OverlayMapping) \cup Keys(penvVars)
        /\ \A k \in Keys(allEnvVars) :
              Get(allEnvVars, k) =
                  IF Has(penvVars, k) THEN Get(penvVars, k)
                  ELSE IF Has(OverlayMapping, k) THEN Get(OverlayMapping, k)
                  ELSE Get(BaseMapping, k)

\* A key defined by all three sources with three different values, and keys
\* that only the base or only the overlay defines
C1_Witness ==
    /\ Merged
    /\ \E k \in Keys(penvVars) :
          /\ Has(BaseMapping, k) /\ Has(OverlayMapping, k)
          /\ Get(penvVars, k) # Get(OverlayMapping, k)
          /\ Get(OverlayMapping, k) # Get(BaseMapping, k)
          /\ Get(penvVars, k) # Get(BaseMapping, k)
    /\ Keys(BaseMapping) \ (Keys(OverlayMapping) \cup Keys(penvVars)) # {}
    /\ Keys(OverlayMapping) \ (Keys(BaseMapping) \cup Keys(penvVars)) # {}

----------------------------------------------------------------------------
(* C2: the residual list of extractPenvArgs *)

IsPairFlag(tok) == tok \in {PENV, ENVFILE}

\* The tokens of args at the positions outside drop, in order
RECURSIVE KeepFrom(_, _, _)
KeepFrom(args, i, drop) ==
    IF i > Len(args) THEN <<>>
    ELSE (IF i \in drop THEN <<>> ELSE <<args[i]>>) \o KeepFrom(args, i + 1, drop)

Without(args, drop) == KeepFrom(args, 1, drop)

\* Reading of the claim as worded: every flag token with a token after it
\* begins a pair
FlagWithFollower(args) == {i \in 1..Len(args) - 1 : IsPairFlag(args[i])}

\* Left-to-right reading: a flag token begins a pair unless it is itself the
\* value of the pair begun by the token before it
RECURSIVE BeginsPair(_, _)
BeginsPair(args, i) ==
    IF i < 1 \/ i >= Len(args) THEN FALSE
    ELSE IF ~IsPairFlag(args[i]) THEN FALSE
    ELSE ~BeginsPair(args, i - 1)

PairStarts(args) == {i \in 1..Len(args) : BeginsPair(args, i)}

PairPositions(starts) == starts \cup {i + 1 : i \in starts}

Extracted == pc # "start" /\ Recognized
additionalArgs == Tail(argv)

(* C2 as worded: the residual list is the argument list without every --penv or
   --env-file token that has a following token and without that following
   token; a trailing --penv or --env-file is kept. *)
C2_AsWorded ==
    Extracted =>
        /\ remainingArgs =
              Without(additionalArgs, PairPositions(FlagWithFollower(additionalArgs)))
        /\ (Len(additionalArgs) > 0 /\ IsPairFlag(additionalArgs[Len(additionalArgs)])) =>
              (Len(remainingArgs) > 0 /\
               remainingArgs[Len(remainingArgs)] = additionalArgs[Len(additionalArgs)])

(* C2, amended: scanning left to right, a --penv or --env-file token that has a
   following token and is not itself the value of the pair begun just before it
   is removed together with the following token; every other token is kept once,
   in order, including a trailing flag that no pair consumed. *)
C2_Residual ==
    Extracted =>
        /\ remainingArgs = Without(additionalArgs, PairPositions(PairStarts(additionalArgs)))
        /\ LET n == Len(additionalArgs) IN
           (n > 0 /\ IsPairFlag(additionalArgs[n]) /\ ~BeginsPair(additionalArgs, n - 1)) =>
              (Len(remainingArgs) > 0 /\ remainingArgs[Len(remainingArgs)] = additionalArgs[n])

\* A flag consumed as the value of the flag before it, an ordinary token kept
\* after it, and a trailing flag kept
C2_Witness ==
    /\ Extracted
    /\ Len(additionalArgs) = 4
    /\ BeginsPair(additionalArgs, 1)
    /\ IsPairFlag(additionalArgs[2])
    /\ IsPairFlag(additionalArgs[4])
    /\ remainingArgs = <<additionalArgs[3], additionalArgs[4]>>

----------------------------------------------------------------------------
(* C3: when the first argument is absent or is neither dev nor deploy, the
   command line given to spawn is "node <wrangler>" followed by the original
   arguments separated by single blanks, the shell hands the child exactly those
   arguments, and nothing is loaded, looked up, extracted or warned about. *)
C3_Passthrough ==
    (pc # "start" /\ isPassthrough(argv)) =>
        /\ spawned = <<NodePrefix \o wranglerPath \o SP \o Join(argv, SP)>>
        /\ fullCommand = spawned[1]
        /\ ShellSplit(spawned[1]) =
              [ok |-> TRUE, words |-> <<Before(NodePrefix, Len(NodePrefix)), wranglerPath>> \o argv]
        /\ loads = <<>>
        /\ lookups = <<>>
        /\ penvVars = <<>>
        /\ remainingArgs = <<>>
        /\ warnings = <<>>
        /\ logs = <<>>

\* A pass-through run whose arguments hold a --penv pair and an --env-file pair
C3_Witness ==
    /\ pc = "spawned"
    /\ isPassthrough(argv)
    /\ Len(argv) = 5
    /\ \E i, j \in 2..4 : argv[i] = PENV /\ argv[j] = ENVFILE

----------------------------------------------------------------------------
(* Helpers for the properties about the synthesized flags *)

\* String.prototype.includes
Contains(s, sub) ==
    \E i \in 1..(Len(s) - Len(sub) + 1) : SubSeq(s, i, i + Len(sub) - 1) = sub

StartsWith(s, prefix) == Len(s) >= Len(prefix) /\ SubSeq(s, 1, Len(prefix)) = prefix

Letters ==
    {"a", "b", "c", "d", "e", "f", "g", "h", "i", "j", "k", "l", "m",
     "n", "o", "p", "q", "r", "s", "t", "u", "v", "w", "x", "y", "z",
     "A", "B", "C", "D", "E", "F", "G", "H", "I", "J", "K", "L", "M",
     "N", "O", "P", "Q", "R", "S", "T", "U", "V", "W", "X", "Y", "Z"}
DigitChars == {"0", "1", "2", "3", "4", "5", "6", "7", "8", "9"}

\* isValidJSIdentifier of the tests: /^[a-zA-Z_$][a-zA-Z0-9_$]*$/
isValidJSIdentifier(str) ==
    /\ Len(str) > 0
    /\ str[1] \in Letters \cup {"_", "$"}
    /\ \A i \in 2..Len(str) : str[i] \in Letters \cup DigitChars \cup {"_", "$"}

DefineFlag == <<"-", "-", "d", "e", "f", "i", "n", "e">>
VarFlag == <<"-", "-", "v", "a", "r">>
ProcessEnv == <<"p", "r", "o", "c", "e", "s", "s", ".", "e", "n", "v">>
ImportMetaEnv == <<"i", "m", "p", "o", "r", "t", ".", "m", "e", "t", "a", ".", "e", "n", "v">>

BareAccessor(object, key) == object \o <<".">> \o key
BracketAccessor(object, key) == object \o <<"[", "\"">> \o key \o <<"\"", "]">>
SingleQuoted(s) == <<"'">> \o s \o <<"'">>

\* JSON.parse of a string literal: ok is FALSE when lit is not one
RECURSIVE JsonUnescape(_, _)
JsonUnescape(s, i) ==
    IF i > Len(s) THEN [ok |-> TRUE, value |-> <<>>]
    ELSE IF s[i] = "\"" THEN [ok |-> FALSE, value |-> <<>>]
    ELSE IF s[i] = "\\"
         THEN IF i + 1 > Len(s) \/ s[i + 1] \notin {"\"", "\\", "n", "t"}
              THEN [ok |-> FALSE, value |-> <<>>]
              ELSE LET rest == JsonUnescape(s, i + 2)
                       c == IF s[i + 1] = "n" THEN "\n"
                            ELSE IF s[i + 1] = "t" THEN "\t" ELSE s[i + 1]
                   IN  [ok |-> rest.ok, value |-> <<c>> \o rest.value]
    ELSE LET rest == JsonUnescape(s, i + 1)
         IN  [ok |-> rest.ok, value |-> <<s[i]>> \o rest.value]

JsonParse(lit) ==
    IF Len(lit) < 2 \/ lit[1] # "\"" \/ lit[Len(lit)] # "\""
    THEN [ok |-> FALSE, value |-> <<>>]
    ELSE JsonUnescape(SubSeq(lit, 2, Len(lit) - 1), 1)

----------------------------------------------------------------------------
(* C4: in a dev or deploy run the command holds, for every key K with value V of
   the final mapping, the three flag groups --define process.env.K:'J',
   --define import.meta.env.K:'J' and --var K: with J, J the JSON encoding of V. *)
C4_ThreeGroups ==
    Merged =>
        \A i \in 1..Len(allEnvVars) :
            LET K == allEnvVars[i][1]
                J == JSONstringify(allEnvVars[i][2])
            IN  /\ Contains(fullCommand,
                    DefineFlag \o SP \o BareAccessor(ProcessEnv, K) \o <<":">> \o SingleQuoted(J))
                /\ Contains(fullCommand,
                    DefineFlag \o SP \o BareAccessor(ImportMetaEnv, K) \o <<":">> \o SingleQuoted(J))
                /\ \/ Contains(fullCommand, VarFlag \o SP \o K \o <<":">> \o J)
                   \/ Contains(fullCommand, VarFlag \o SP \o K \o <<":">> \o SingleQuoted(J))

----------------------------------------------------------------------------
(* C5: for every name K of the final mapping the accessor in the command is the
   bare form process.env.K if and only if K is a valid identifier; for any
   other name it is the bracket form process.env["K"] and the bare form is not
   emitted. *)
C5_Accessor ==
    Merged =>
        \A K \in Keys(allEnvVars) :
            LET bare == DefineFlag \o SP \o BareAccessor(ProcessEnv, K) \o <<":">>
                bracket == DefineFlag \o SP \o BracketAccessor(ProcessEnv, K) \o <<":">>
            IN  IF isValidJSIdentifier(K)
                THEN Contains(fullCommand, bare) /\ ~Contains(fullCommand, bracket)
                ELSE Contains(fullCommand, bracket) /\ ~Contains(fullCommand, bare)

----------------------------------------------------------------------------
(* C6: for every value V of the final mapping, once the shell has split the
   spawned command line, the flag group of its key is still --define followed
   by one word key:literal, and decoding the literal gives V. *)
C6_RoundTrip ==
    Merged =>
        LET sh == ShellSplit(spawned[1]) IN
        /\ sh.ok
        /\ \A i \in 1..Len(allEnvVars) :
              LET head == BareAccessor(ProcessEnv, allEnvVars[i][1]) \o <<":">>
              IN  \E j \in 1..(Len(sh.words) - 1) :
                      /\ sh.words[j] = DefineFlag
                      /\ StartsWith(sh.words[j + 1], head)
                      /\ JsonParse(After(sh.words[j + 1], Len(head)))
                            = [ok |-> TRUE, value |-> allEnvVars[i][2]]

----------------------------------------------------------------------------
(* C7: a --penv pair whose value T has no ":" *)

PenvStarts(args) == {i \in PairStarts(args) : args[i] = PENV}

\* The key a --penv pair with value tok records, if it records one
RecordedKey(tok, procEnv) ==
    LET c == IndexOf(tok, ":")
    IN  IF c # 0
        THEN IF c > 1 /\ c < Len(tok) THEN Some(Before(tok, c)) ELSE Null
        ELSE IF Has(procEnv, tok) THEN Some(tok) ELSE Null

(* C7: right after extraction, for every --penv T pair with no ":" in T: if
   process.env defines T the override T is recorded, with the environment's
   value unless a later pair records T again; if it does not, the warning
   naming T is printed, and T is recorded only if another pair records it; one
   warning is printed per unresolved pair and no other; both tokens are gone
   from the residual list; and the run goes on to load the files. *)
C7_BareKey ==
    (pc = "extracted") =>
        LET args == additionalArgs
            starts == PenvStarts(args)
            bare == {i \in starts : IndexOf(args[i + 1], ":") = 0}
        IN  /\ \A i \in bare :
                 LET T == args[i + 1]
                     later == \E j \in starts : j > i /\ RecordedKey(args[j + 1], env) = Some(T)
                     other == \E j \in starts : j # i /\ RecordedKey(args[j + 1], env) = Some(T)
                 IN  IF Has(env, T)
                     THEN /\ Has(penvVars, T)
                          /\ ~later => Get(penvVars, T) = Get(env, T)
                     ELSE /\ \E n \in 1..Len(warnings) :
                                warnings[n] = WarnNotFoundPrefix \o T \o WarnNotFoundSuffix
                          /\ ~other => ~Has(penvVars, T)
            /\ Len(warnings) = Cardinality({i \in bare : ~Has(env, args[i + 1])})
            /\ remainingArgs = Without(args, PairPositions(PairStarts(args)))
            /\ ENABLED Load

\* One run with a resolved bare key and an unresolved one
C7_Witness ==
    /\ pc = "extracted"
    /\ Len(additionalArgs) = 4
    /\ Has(penvVars, KeyK)
    /\ Has(env, KeyK)
    /\ Get(penvVars, KeyK) = Get(env, KeyK)
    /\ warnings = <<WarnNotFoundPrefix \o ENVFLAG \o WarnNotFoundSuffix>>
    /\ remainingArgs = <<>>

----------------------------------------------------------------------------
(* C8: the wrapper has exited only if the child reported its exit, and then its
   exit code is the child's code, or 0 when the child reported none. *)
C8_ExitCode ==
    /\ pc # "exited" => exitCode = Null
    /\ pc = "exited" =>
          /\ Len(spawned) = 1
          /\ exitCode = Some(IF childCode = Null THEN 0 ELSE childCode[1])

\* The child of a dev or deploy run reported a non-zero code
C8_Witness ==
    /\ pc = "exited"
    /\ Recognized
    /\ childCode = Some(1)
    /\ exitCode = Some(1)

----------------------------------------------------------------------------
(* C9: failed loads in loadEnvFiles *)

AfterLoad == pc \in {"loaded", "spawned", "exited"} /\ Recognized
IsLoadWarning(w) == ~StartsWith(w, WarnNotFoundPrefix)
LoadWarnings == SelectSeq(warnings, IsLoadWarning)
BaseFailed == loads[1] \notin DOMAIN files
OverlayFailed == Len(loads) >= 2 /\ loads[2] \notin DOMAIN files
NoOverlay == Len(loads) = 1 \/ OverlayFailed

\* What the claim and its amendment share: a failed load counts as empty and
\* the run goes on
FailedLoadsAreEmpty ==
    /\ Keys(dotenvVars) = Keys(BaseMapping) \cup Keys(OverlayMapping)
    /\ BaseFailed => dotenvVars = OverlayMapping
    /\ NoOverlay => dotenvVars = BaseMapping
    /\ (BaseFailed /\ NoOverlay) => dotenvVars = <<>>
    /\ pc = "loaded" => ENABLED Build

----------------------------------------------------------------------------
(* C10: every run hands a command to spawn, and exactly one: never more than
   one, and from some point on exactly one. *)
C10_SpawnsOnce == [](Len(spawned) <= 1) /\ <>[](Len(spawned) = 1)

\* A dev or deploy run with no file on disk, an unresolved override, a failed
\* --env-file load and a trailing flag has spawned its command
C10_Witness ==
    /\ pc = "spawned"
    /\ Recognized
    /\ files = <<>>
    /\ Len(warnings) = 2
    /\ Len(remainingArgs) > 0
    /\ IsPairFlag(remainingArgs[Len(remainingArgs)])
    /\ Len(spawned) = 1

----------------------------------------------------------------------------
(* Runs over --penv values of every shape: several colons, no key, no value,
   a lone colon, a bare key *)

TokColons == <<"K", ":", "a", ":", "b">>
TokNoKey == <<":", "v">>
TokNoValue == <<"K", ":">>
TokColon == <<":">>

PenvTokens == {PENV, TokKV, TokColons, TokNoKey, TokNoValue, TokColon, KeyK}

PenvArgvs == {<<c>> \o rest : c \in {DEV, WHOAMI}, rest \in SeqsUpTo(PenvTokens, MaxArgs)}

PenvInit ==
    /\ argv \in PenvArgvs
    /\ env \in AmbientEnvs
    /\ files = FileContents
    /\ pc = "start"
    /\ penvVars = <<>>
    /\ remainingArgs = <<>>
    /\ envName = Null
    /\ customEnvPath = Null
    /\ dotenvVars = <<>>
    /\ allEnvVars = <<>>
    /\ fullCommand = <<>>
    /\ spawned = <<>>
    /\ loads = <<>>
    /\ lookups = <<>>
    /\ warnings = <<>>
    /\ logs = <<>>
    /\ childCode = Null
    /\ exitCode = Null

PenvSpec == PenvInit /\ [][Next]_vars

\* The value a --penv pair with value tok records, when it records one
RecordedValue(tok, procEnv) ==
    LET c == IndexOf(tok, ":")
    IN  IF c # 0 THEN After(tok, c) ELSE Get(procEnv, tok)

\* Pair i is the last pair of starts that records key k
LastRecording(args, starts, i, k, procEnv) ==
    /\ RecordedKey(args[i + 1], procEnv) = Some(k)
    /\ \A j \in starts : j > i => RecordedKey(args[j + 1], procEnv) # Some(k)

(* C11: right after extraction, for every --penv T pair with ":" in T, key
   being the text before the first ":" and value all the text after it: if
   both are non-empty the key is recorded, with that value unless a later pair
   records the key again; if either is empty the pair records nothing, so
   every recorded key has the value of the last pair that records it; the
   environment is looked up once per pair without ":" and never for a pair
   with ":", and every warning names a value without ":"; both tokens of every
   pair are gone from the residual list. *)
C11_ColonPair ==
    (pc = "extracted") =>
        LET args == additionalArgs
            starts == PenvStarts(args)
            colon == {i \in starts : IndexOf(args[i + 1], ":") # 0}
            bare == starts \ colon
        IN  /\ \A i \in colon :
                 LET T == args[i + 1]
                     c == IndexOf(T, ":")
                     key == SubSeq(T, 1, c - 1)
                     value == SubSeq(T, c + 1, Len(T))
                 IN  (key # <<>> /\ value # <<>>) =>
                        /\ Has(penvVars, key)
                        /\ LastRecording(args, starts, i, key, env)
                              => Get(penvVars, key) = value
            /\ \A k \in Keys(penvVars) :
                 \E i \in starts :
                    /\ LastRecording(args, starts, i, k, env)
                    /\ Get(penvVars, k) = RecordedValue(args[i + 1], env)
            /\ Len(lookups) = Cardinality(bare)
            /\ \A n \in 1..Len(lookups) : IndexOf(lookups[n], ":") = 0
            /\ \A n \in 1..Len(warnings) :
                 \E i \in bare : warnings[n] = NotFoundWarning(args[i + 1])
            /\ remainingArgs = Without(args, PairPositions(starts))

\* --penv K:a:b --penv K: with K set in the environment: K is recorded as a:b,
\* nothing is looked up or warned about, nothing is left over
C11_Witness ==
    /\ pc = "extracted"
    /\ additionalArgs = <<PENV, TokColons, PENV, TokNoValue>>
    /\ Has(env, KeyK)
    /\ penvVars = << <<KeyK, <<"a", ":", "b">> >> >>
    /\ lookups = <<>>
    /\ warnings = <<>>
    /\ remainingArgs = <<>>

----------------------------------------------------------------------------
(* C12: the order of the dev/deploy command *)

NodeWord == <<"n", "o", "d", "e">>

\* The flag group of one entry as written in the command line, and as the two
\* words the shell makes of it
GroupText(entry) ==
    DefineFlag \o SP \o BareAccessor(ProcessEnv, entry[1]) \o <<":">>
    \o SingleQuoted(JSONstringify(entry[2]))

RECURSIVE GroupWords(_)
GroupWords(obj) ==
    IF Len(obj) = 0 THEN <<>>
    ELSE <<DefineFlag, BareAccessor(ProcessEnv, obj[1][1]) \o <<":">> \o JSONstringify(obj[1][2])>>
         \o GroupWords(Tail(obj))

\* No value of the mapping holds a single quote (the case of C6)
QuoteFree(obj) == \A i \in 1..Len(obj) : IndexOf(obj[i][2], "'") = 0

(* C12: in a dev or deploy run the spawned command line is node and the
   wrangler path, the subcommand, one flag group per entry of the final mapping
   in the mapping's order, then the residual arguments in their original
   order, each part separated by a blank; and when no value holds a single
   quote the shell hands the child exactly these words in this order, so that
   no flag group comes after a residual argument. *)
C12_CommandOrder ==
    Merged =>
        /\ Len(spawned) = 1
        /\ spawned[1] = fullCommand
        /\ fullCommand =
              NodePrefix \o wranglerPath \o SP \o argv[1] \o SP
              \o Join([i \in 1..Len(allEnvVars) |-> GroupText(allEnvVars[i])], SP)
              \o SP \o Join(remainingArgs, SP)
        /\ remainingArgs = Without(additionalArgs, PairPositions(PairStarts(additionalArgs)))
        /\ QuoteFree(allEnvVars) =>
              ShellSplit(spawned[1]) =
                 [ok |-> TRUE,
                  words |-> <<NodeWord, wranglerPath, argv[1]>>
                            \o GroupWords(allEnvVars) \o remainingArgs]

\* A run with three flag groups followed by two residual arguments
C12_Witness ==
    /\ pc = "spawned"
    /\ Recognized
    /\ Len(allEnvVars) = 3
    /\ QuoteFree(allEnvVars)
    /\ remainingArgs = <<ENVFLAG, KeyK>>
    /\ Len(ShellSplit(spawned[1]).words) = 3 + 6 + 2

----------------------------------------------------------------------------
(* Runs over --env and --env-file values of every shape: a file name, a path
   with a directory, the empty string *)

EmptyTok == <<>>
DirPath == <<"d", "/", "K">>
DirOverlayPath == <<"d", "/", "K", ".", "K">>

LoadTokens == {ENVFLAG, ENVFILE, KeyK, DirPath, EmptyTok}

LoadArgvs == {<<c>> \o rest : c \in {DEV, WHOAMI}, rest \in SeqsUpTo(LoadTokens, MaxArgs)}

LoadFileContents ==
    FileContents
    @@ (DirPath :> << <<KeyK, <<"c">> >> >>)
    @@ (DirOverlayPath :> << <<KeyJ, <<"e">> >> >>)

LoadBaseFiles == {DefaultEnvPath, CustomPath, DirPath}

\* The base files and the overlay files each exist or not
LoadFileSystems ==
    {[p \in {q \in DOMAIN LoadFileContents :
                \/ base /\ q \in LoadBaseFiles
                \/ overlay /\ q \notin LoadBaseFiles}
        |-> LoadFileContents[p]] : base \in BOOLEAN, overlay \in BOOLEAN}

LoadInit ==
    /\ argv \in LoadArgvs
    /\ env = <<>>
    /\ files \in LoadFileSystems
    /\ pc = "start"
    /\ penvVars = <<>>
    /\ remainingArgs = <<>>
    /\ envName = Null
    /\ customEnvPath = Null
    /\ dotenvVars = <<>>
    /\ allEnvVars = <<>>
    /\ fullCommand = <<>>
    /\ spawned = <<>>
    /\ loads = <<>>
    /\ lookups = <<>>
    /\ warnings = <<>>
    /\ logs = <<>>
    /\ childCode = Null
    /\ exitCode = Null

LoadSpec == LoadInit /\ [][Next]_vars

----------------------------------------------------------------------------
(* C13: the overlay file of loadEnvFiles *)

\* A path without a leading "./"
StripDotSlash(p) ==
    IF Len(p) >= 2 /\ p[1] = "." /\ p[2] = "/" THEN SubSeq(p, 3, Len(p)) ELSE p

(* C13 as worded: after the load, an overlay was tried if and only if an
   environment name was found; its path is .env.<name> when no --env-file
   value was found and <dir>/<file>.<name> of that value otherwise; without
   an environment name the result is the base mapping. *)
C13_AsWorded ==
    AfterLoad =>
        /\ Len(loads) = 2 <=> envName # Null
        /\ envName # Null =>
              /\ Len(loads) = 2
              /\ loads[2] =
                    IF customEnvPath = Null
                    THEN DefaultEnvPath \o <<".">> \o envName[1]
                    ELSE dirname(customEnvPath[1]) \o <<"/">>
                         \o basename(customEnvPath[1]) \o <<".">> \o envName[1]
        /\ envName = Null => dotenvVars = BaseMapping

\* A string the source tests for truth: given and not empty
Given(opt) == opt # Null /\ opt[1] # <<>>

(* C13: after the load, the base path is the --env-file value when one was
   found and is not empty, else .env; an overlay was tried if and only if an
   environment name was found and is not empty; its path is .env.<name> under
   the default base and <dir>/<file>.<name> of the --env-file value otherwise,
   which names the file <base path>.<name>; when no overlay was tried the
   result is the base mapping. *)
C13_Overlay ==
    AfterLoad =>
        /\ Len(loads) \in {1, 2}
        /\ loads[1] = IF Given(customEnvPath) THEN customEnvPath[1] ELSE DefaultEnvPath
        /\ Len(loads) = 2 <=> Given(envName)
        /\ Given(envName) =>
              /\ loads[2] =
                    IF ~Given(customEnvPath)
                    THEN DefaultEnvPath \o <<".">> \o envName[1]
                    ELSE dirname(customEnvPath[1]) \o <<"/">>
                         \o basename(customEnvPath[1]) \o <<".">> \o envName[1]
              /\ StripDotSlash(loads[2]) = loads[1] \o <<".">> \o envName[1]
        /\ ~Given(envName) => dotenvVars = BaseMapping

\* --env-file d/K --env K: the overlay d/K.K was tried and loaded
C13_Witness ==
    /\ pc = "loaded"
    /\ customEnvPath = Some(DirPath)
    /\ envName = Some(KeyK)
    /\ loads = <<DirPath, DirOverlayPath>>
    /\ dotenvVars = << <<KeyK, <<"c">> >>, <<KeyJ, <<"e">> >> >>

----------------------------------------------------------------------------
(* C14: where the environment name and the config file path come from *)

\* The token right after the first occurrence of flag in args, if there is one
FirstAfter(args, flag) ==
    LET at == {i \in 1..Len(args) : args[i] = flag}
    IN  IF at = {} THEN Null
        ELSE LET first == CHOOSE i \in at : \A j \in at : i <= j
             IN  IF first = Len(args) THEN Null ELSE Some(args[first + 1])

\* The environment name is read from the residual list, the config file path
\* from the original arguments
ClassifiedAsClaimed ==
    /\ envName = FirstAfter(remainingArgs, ENVFLAG)
    /\ customEnvPath = FirstAfter(additionalArgs, ENVFILE)

\* The arguments the wrapped tool receives after the subcommand and the flag
\* groups, once the shell has split the command line
Received ==
    LET sh == ShellSplit(spawned[1])
    IN  SubSeq(sh.words, 4 + 2 * Len(allEnvVars), Len(sh.words))

(* C14: in a dev or deploy run the environment name is the token after the
   first --env of the residual list, the config file path the token after the
   first --env-file of the original arguments, and the shell hands the wrapped
   tool a command line in which the token after the first --env is the
   environment name the overlay was selected with. *)
C14_EnvSelection ==
    Merged =>
        /\ ClassifiedAsClaimed
        /\ ShellSplit(spawned[1]).ok
        /\ FirstAfter(Received, ENVFLAG) = envName

----------------------------------------------------------------------------
(* C15: the environment lookups come before the file loads *)

\* The step resolves every bare --penv key from process.env as it is before
\* the step
ResolvedFromAmbient ==
    LET args == additionalArgs
        starts == PenvStarts(args)
        bare == {i \in starts : IndexOf(args[i + 1], ":") = 0}
    IN  \A i \in bare :
           LET T == args[i + 1]
           IN  IF Has(env, T)
               THEN /\ Has(penvVars', T)
                    /\ LastRecording(args, starts, i, T, env)
                          => Get(penvVars', T) = Get(env, T)
               ELSE /\ \E n \in 1..Len(warnings') : warnings'[n] = NotFoundWarning(T)
                    /\ (\A j \in starts : RecordedKey(args[j + 1], env) # Some(T))
                          => ~Has(penvVars', T)

LookupBeforeLoad ==
    /\ loads' = <<>> => env' = env
    /\ lookups' # lookups => (loads' = <<>> /\ ResolvedFromAmbient)
    /\ loads # <<>> => (lookups' = lookups /\ penvVars' = penvVars)
    /\ env' # env => (lookups' = lookups /\ penvVars' = penvVars)

(* C15: process.env does not change before the first file load; every step
   that looks a bare --penv key up in process.env is taken while no file has
   been loaded and records the value (or prints the warning) that process.env
   gives at that point; once a file has been loaded, and in the step that
   changes process.env, no lookup is made and the overrides stay as they are. *)
C15_LookupBeforeLoad == [][LookupBeforeLoad]_vars

\* --penv K with K unset at startup: the warning was printed and K is not an
\* override, although the loaded .env file has since put K into process.env
C15_Witness ==
    /\ pc = "loaded"
    /\ lookups = <<KeyK>>
    /\ warnings = <<NotFoundWarning(KeyK)>>
    /\ ~Has(penvVars, KeyK)
    /\ loads # <<>>
    /\ Has(env, KeyK)
    /\ Has(dotenvVars, KeyK)

====
